---- MODULE Spec2Model ----
(***************************************************************************)
(* UCFunctionToolkit for LiteLLM: resolving Unity Catalog function names   *)
(* into LiteLLMTool records, and the bound callable of each tool.          *)
(*                                                                         *)
(* Source: ai/integrations/litellm/src/unitycatalog/ai/litellm/toolkit.py  *)
(* Tests:  ai/integrations/lite_llm/tests/test_litellm_toolkit.py          *)
(*                                                                         *)
(* Representation.  A full function name 'catalog.schema.function' is the  *)
(* tuple <<catalog, schema, function>>; the absent name (None) is <<>>.    *)
(* A client handle is a string; the absent client is "None".  A Python     *)
(* dict is a sequence of [key, tool] entries with distinct keys, in        *)
(* insertion order.  An operation returns a record holding what it raised  *)
(* (err, NoError when it returned), what it returned, and the accesses to  *)
(* its collaborators it made, in order (trace).                            *)
(***************************************************************************)
EXTENDS Integers, Sequences, FiniteSets, TLC

VARIABLES
    default_client, \* the process-wide default client, or None
    toolkit,        \* the caller's toolkit objects: uninitialized or ready
    last,           \* the last call the caller made, with its outcome
    n_invoke,       \* invocations of tool callables made so far
    n_execute       \* execute_function calls the clients received so far

vars == <<default_client, toolkit, last, n_invoke, n_execute>>

----------------------------------------------------------------------------
(* Bounds of the model *)

MaxNames == 2
MaxUseNames == 1
MaxCalls == 2

----------------------------------------------------------------------------
(* Values *)

None == "None"
NoName == <<>>
NoError == "NoError"

MissingClient == "No client provided"
EmptyFunctionList == "Cannot create tool instances without function_names being provided."
InvalidArgumentBoth == "Only one of function_name or function_info should be provided."
InvalidArgumentNeither == "Either function_name or function_info should be provided."
InstanceOfError == "Input should be an instance of BaseFunctionClient"
FunctionNotFound == "UpstreamError: function not found"
ExecutionFailed == "UpstreamError: execution failed"

Clients == {"c1", "c2"}
NotAClient == "client"

F == <<"catalog", "schema", "f">>
G == <<"catalog", "schema", "g">>
X == <<"catalog", "schema", "x">>
STAR == <<"catalog", "schema", "*">>
Z == <<"other", "schema", "z">>

NoInfo == [full_name |-> NoName]
InfoF == [full_name |-> F, comment |-> "adds one",
          input_params |-> <<[name |-> "x", type |-> "STRING", has_default |-> FALSE]>>]
InfoG == [full_name |-> G, comment |-> None, input_params |-> <<>>]

(* What each client's catalog holds, in listing order: c1 sees f and g,    *)
(* c2 sees f only; x exists nowhere.                                       *)
Catalog(client) == IF client = "c1" THEN <<InfoF, InfoG>> ELSE <<InfoF>>

(* Keyword-argument values: JSON-native ones, and one that is not.         *)
StrVal(s) == [type |-> "str", value |-> s]
IntVal(s) == [type |-> "int", value |-> s]
DateVal(s) == [type |-> "datetime", value |-> s]
NoKwargs == [k \in {} |-> StrVal("")]
Kwargs == {NoKwargs,
           [k \in {"x"} |-> StrVal("hello")],
           [k \in {"x", "n"} |-> IF k = "x" THEN StrVal("hello") ELSE IntVal("1")],
           [k \in {"x"} |-> DateVal("2024-01-01")]}
JsonNative(v) == v.type \in {"str", "int"}

Truthy(name) == name # NoName
SeqToSet(s) == {s[i] : i \in DOMAIN s}

----------------------------------------------------------------------------
(* Python dict, insertion-ordered *)

DictKeys(d) == {d[i].key : i \in DOMAIN d}
DictHas(d, k) == k \in DictKeys(d)
DictGet(d, k) == d[CHOOSE i \in DOMAIN d : d[i].key = k].tool
DictSet(d, k, v) ==
    IF DictHas(d, k)
    THEN [i \in DOMAIN d |-> IF d[i].key = k THEN [key |-> k, tool |-> v] ELSE d[i]]
    ELSE Append(d, [key |-> k, tool |-> v])
DictValues(d) == [i \in DOMAIN d |-> d[i].tool]

----------------------------------------------------------------------------
(* Collaborators *)

(* validate_or_set_default_client: the client given, else the process-wide *)
(* default (read through its accessor); MissingClient when there is none.  *)
validate_or_set_default_client(client, dflt) ==
    IF client # None
    THEN [err |-> NoError, client |-> client, trace |-> <<>>]
    ELSE [err |-> IF dflt = None THEN MissingClient ELSE NoError,
          client |-> dflt,
          trace |-> <<[call |-> "get_default_client"]>>]

(* client.get_function(name) *)
get_function(client, name) ==
    LET hits == {i \in DOMAIN Catalog(client) : Catalog(client)[i].full_name = name}
        access == <<[call |-> "get_function", client |-> client, name |-> name]>>
    IN  IF hits = {}
        THEN [err |-> FunctionNotFound, info |-> NoInfo, trace |-> access]
        ELSE [err |-> NoError, info |-> Catalog(client)[CHOOSE i \in hits : TRUE],
              trace |-> access]

(* client.list_functions(catalog, schema): the expansion of a wildcard *)
list_functions(client, pattern) ==
    LET C == Catalog(client)
        RECURSIVE pick(_)
        pick(i) == IF i > Len(C) THEN <<>>
                   ELSE (IF C[i].full_name[1] = pattern[1] /\ C[i].full_name[2] = pattern[2]
                         THEN <<C[i]>> ELSE <<>>) \o pick(i + 1)
    IN  [infos |-> pick(1),
         trace |-> <<[call |-> "list_functions", client |-> client, name |-> pattern]>>]

(* client.execute_function(function_name, parameters): the result, or the  *)
(* error it raises; `fault` is the remote side failing this call.          *)
execute_function(client, function_name, parameters, fault) ==
    IF fault THEN [raised |-> ExecutionFailed]
    ELSE IF \A i \in DOMAIN Catalog(client) : Catalog(client)[i].full_name # function_name
    THEN [raised |-> FunctionNotFound]
    ELSE [raised |-> NoError, format |-> "SCALAR",
          value |-> [by |-> client, fn |-> function_name, args |-> parameters]]

(* FunctionExecutionResult.to_json(): the result as a JSON string *)
to_json(result) == [json |-> [format |-> result.format, value |-> result.value]]

(* get_tool_name: the separators of the full name replaced by "__" *)
RECURSIVE get_tool_name(_)
get_tool_name(name) ==
    IF Len(name) <= 1 THEN name
    ELSE <<Head(name), "__">> \o get_tool_name(Tail(name))

(* generate_function_input_params_schema(info).pydantic_model: one field   *)
(* per declared parameter, required unless it has a default; the bare      *)
(* BaseModel when the function declares no parameter.                      *)
generate_function_input_params_schema(info) ==
    IF info.input_params = <<>>
    THEN [pydantic_model |-> [cls |-> "BaseModel", fields |-> <<>>]]
    ELSE [pydantic_model |->
            [cls |-> "GeneratedModel",
             fields |-> [i \in DOMAIN info.input_params |->
                           [name |-> info.input_params[i].name,
                            type |-> info.input_params[i].type,
                            required |-> ~info.input_params[i].has_default]]]]

(* openai.pydantic_function_tool *)
pydantic_function_tool(model, name, description) ==
    [type |-> "function",
     function |-> [name |-> name, strict |-> TRUE, parameters |-> model,
                   description |-> description]]

(* json.loads(json.dumps(kwargs, default=str)): a JSON-native value comes  *)
(* back as it went in; any other value comes back as its str().           *)
json_dumps(kwargs) ==
    [json |-> [k \in DOMAIN kwargs |->
                 IF JsonNative(kwargs[k]) THEN kwargs[k] ELSE StrVal(kwargs[k].value)]]
json_loads(text) == text.json

----------------------------------------------------------------------------
(* LiteLLMTool and its callable *)

NoTool == [name |-> NoName]

LiteLLMTool(fn, name, description, tool) ==
    [fn |-> fn, name |-> name, description |-> description, tool |-> tool]

to_dict(self) == self.tool

(* The callable `func` of a tool, a closure over client and function_name: *)
(* the execute_function calls it makes, and what it returns or raises.     *)
(* Variant: func executing under the tool's sanitized name *)
func_by_tool_name(tool, kwargs, fault) ==
    LET args_json == json_loads(json_dumps(kwargs))
        result == execute_function(tool.fn.client, tool.name, args_json, fault)
        request == [client |-> tool.fn.client, function_name |-> tool.name,
                    parameters |-> args_json]
    IN  IF result.raised # NoError
        THEN [calls |-> <<request>>, raised |-> result.raised, ret |-> None]
        ELSE [calls |-> <<request>>, raised |-> NoError, ret |-> to_json(result)]

(* Variant: func calling execute_function again when it raises *)
func_retrying(tool, kwargs, fault) ==
    LET args_json == json_loads(json_dumps(kwargs))
        result == execute_function(tool.fn.client, tool.fn.function_name, args_json, fault)
        request == [client |-> tool.fn.client, function_name |-> tool.fn.function_name,
                    parameters |-> args_json]
    IN  IF result.raised # NoError
        THEN [calls |-> <<request, request>>, raised |-> result.raised, ret |-> None]
        ELSE [calls |-> <<request>>, raised |-> NoError, ret |-> to_json(result)]

func(tool, kwargs, fault) ==
    LET args_json == json_loads(json_dumps(kwargs))
        result == execute_function(tool.fn.client, tool.fn.function_name, args_json, fault)
        request == [client |-> tool.fn.client, function_name |-> tool.fn.function_name,
                    parameters |-> args_json]
    IN  IF result.raised # NoError
        THEN [calls |-> <<request>>, raised |-> result.raised, ret |-> None]
        ELSE [calls |-> <<request>>, raised |-> NoError, ret |-> to_json(result)]

----------------------------------------------------------------------------
(* The converter *)

BaseModelWrapper(generated_model) ==
    IF generated_model.cls = "BaseModel"
    THEN [cls |-> "BaseModelWrapper", fields |-> generated_model.fields]
    ELSE generated_model

(* Variant: the descriptor path binding the short function name *)
uc_function_to_litellm_tool_short_name(client, function_name, function_info, dflt) ==
    LET v == validate_or_set_default_client(client, dflt)
        fetched == get_function(v.client, function_name)
        info == IF Truthy(function_name) THEN fetched.info ELSE function_info
        name == IF Truthy(function_name) THEN function_name
                ELSE <<function_info.full_name[3]>>
        trace == v.trace \o (IF Truthy(function_name) THEN fetched.trace ELSE <<>>)
        generated_model == generate_function_input_params_schema(info).pydantic_model
        description == IF info.comment = None THEN "" ELSE info.comment
        tool == pydantic_function_tool(BaseModelWrapper(generated_model),
                                       get_tool_name(name), description)
    IN  IF Truthy(function_name) /\ function_info # NoInfo
        THEN [err |-> InvalidArgumentBoth, tool |-> NoTool, trace |-> <<>>]
        ELSE IF v.err # NoError
        THEN [err |-> v.err, tool |-> NoTool, trace |-> v.trace]
        ELSE IF Truthy(function_name) /\ fetched.err # NoError
        THEN [err |-> fetched.err, tool |-> NoTool, trace |-> trace]
        ELSE IF ~Truthy(function_name) /\ function_info = NoInfo
        THEN [err |-> InvalidArgumentNeither, tool |-> NoTool, trace |-> trace]
        ELSE [err |-> NoError,
              tool |-> LiteLLMTool([client |-> v.client, function_name |-> name],
                                   get_tool_name(name), description, tool),
              trace |-> trace]

(* uc_function_to_litellm_tool(client, function_name, function_info), with *)
(* the process-wide default client dflt it may read.                       *)
uc_function_to_litellm_tool(client, function_name, function_info, dflt) ==
    LET v == validate_or_set_default_client(client, dflt)
        fetched == get_function(v.client, function_name)
        info == IF Truthy(function_name) THEN fetched.info ELSE function_info
        name == IF Truthy(function_name) THEN function_name
                ELSE function_info.full_name
        trace == v.trace \o (IF Truthy(function_name) THEN fetched.trace ELSE <<>>)
        generated_model == generate_function_input_params_schema(info).pydantic_model
        description == IF info.comment = None THEN "" ELSE info.comment
        tool == pydantic_function_tool(BaseModelWrapper(generated_model),
                                       get_tool_name(name), description)
    IN  IF Truthy(function_name) /\ function_info # NoInfo
        THEN [err |-> InvalidArgumentBoth, tool |-> NoTool, trace |-> <<>>]
        ELSE IF v.err # NoError
        THEN [err |-> v.err, tool |-> NoTool, trace |-> v.trace]
        ELSE IF Truthy(function_name) /\ fetched.err # NoError
        THEN [err |-> fetched.err, tool |-> NoTool, trace |-> trace]
        ELSE IF ~Truthy(function_name) /\ function_info = NoInfo
        THEN [err |-> InvalidArgumentNeither, tool |-> NoTool, trace |-> trace]
        ELSE [err |-> NoError,
              tool |-> LiteLLMTool([client |-> v.client, function_name |-> name],
                                   get_tool_name(name), description, tool),
              trace |-> trace]

----------------------------------------------------------------------------
(* Pattern expansion and per-function conversion *)

IsWildcard(name) == name[3] = "*"

(* One conversion result folded into the accumulated mapping *)
Accumulate(acc, key, r) ==
    IF r.err # NoError
    THEN [acc EXCEPT !.err = r.err, !.trace = @ \o r.trace]
    ELSE [acc EXCEPT !.tools_dict = DictSet(@, key, r.tool), !.trace = @ \o r.trace]

RECURSIVE convert_listed(_, _, _, _)
convert_listed(infos, acc, client, dflt) ==
    IF infos = <<>> \/ acc.err # NoError THEN acc
    ELSE LET info == Head(infos)
             next == IF DictHas(acc.tools_dict, info.full_name) THEN acc
                     ELSE Accumulate(acc, info.full_name,
                              uc_function_to_litellm_tool(client, NoName, info, dflt))
         IN  convert_listed(Tail(infos), next, client, dflt)

RECURSIVE process_entries(_, _, _, _)
process_entries(names, acc, client, dflt) ==
    IF names = <<>> \/ acc.err # NoError THEN acc
    ELSE LET name == Head(names)
             listed == list_functions(client, name)
             next == IF DictHas(acc.tools_dict, name) THEN acc
                     ELSE IF IsWildcard(name)
                     THEN convert_listed(listed.infos,
                                         [acc EXCEPT !.trace = @ \o listed.trace],
                                         client, dflt)
                     ELSE Accumulate(acc, name,
                              uc_function_to_litellm_tool(client, name, NoInfo, dflt))
         IN  process_entries(Tail(names), next, client, dflt)

(* process_function_names: every entry of function_names, in order, is     *)
(* expanded (a wildcard) or taken as it is (a concrete name), and every    *)
(* name not yet a key of the mapping is converted and added to it.         *)
process_function_names(function_names, tools_dict, client, dflt) ==
    process_entries(function_names,
                    [err |-> NoError, tools_dict |-> tools_dict, trace |-> <<>>],
                    client, dflt)

----------------------------------------------------------------------------
(* The toolkit *)

(* Variant: validate_toolkit without the empty-list guard *)
validate_toolkit_no_guard(self, dflt) ==
    LET v == validate_or_set_default_client(self.client, dflt)
        p == process_function_names(self.function_names, self.tools_dict, v.client, dflt)
    IN  IF v.err # NoError
        THEN [err |-> v.err, self |-> self, trace |-> v.trace]
        ELSE IF p.err # NoError
        THEN [err |-> p.err, self |-> [self EXCEPT !.client = v.client],
              trace |-> v.trace \o p.trace]
        ELSE [err |-> NoError,
              self |-> [self EXCEPT !.client = v.client, !.tools_dict = p.tools_dict],
              trace |-> v.trace \o p.trace]

(* Variant: validate_toolkit with the empty-list guard before client resolution *)
validate_toolkit_guard_first(self, dflt) ==
    LET v == validate_or_set_default_client(self.client, dflt)
        p == process_function_names(self.function_names, self.tools_dict, v.client, dflt)
    IN  IF self.function_names = <<>>
        THEN [err |-> EmptyFunctionList, self |-> self, trace |-> <<>>]
        ELSE IF v.err # NoError
        THEN [err |-> v.err, self |-> self, trace |-> v.trace]
        ELSE IF p.err # NoError
        THEN [err |-> p.err, self |-> [self EXCEPT !.client = v.client],
              trace |-> v.trace \o p.trace]
        ELSE [err |-> NoError,
              self |-> [self EXCEPT !.client = v.client, !.tools_dict = p.tools_dict],
              trace |-> v.trace \o p.trace]

(* Variant: validate_toolkit swallowing a failed conversion *)
validate_toolkit_keeps_partial(self, dflt) ==
    LET v == validate_or_set_default_client(self.client, dflt)
        p == process_function_names(self.function_names, self.tools_dict, v.client, dflt)
    IN  IF v.err # NoError
        THEN [err |-> v.err, self |-> self, trace |-> v.trace]
        ELSE IF self.function_names = <<>>
        THEN [err |-> EmptyFunctionList, self |-> [self EXCEPT !.client = v.client],
              trace |-> v.trace]
        ELSE [err |-> NoError,
              self |-> [self EXCEPT !.client = v.client, !.tools_dict = p.tools_dict],
              trace |-> v.trace \o p.trace]

(* Variant: validate_toolkit keying the mapping by tool name *)
validate_toolkit_keyed_by_tool_name(self, dflt) ==
    LET v == validate_or_set_default_client(self.client, dflt)
        p == process_function_names(self.function_names, self.tools_dict, v.client, dflt)
        renamed == [i \in DOMAIN p.tools_dict |->
                      [key |-> p.tools_dict[i].tool.name, tool |-> p.tools_dict[i].tool]]
    IN  IF v.err # NoError
        THEN [err |-> v.err, self |-> self, trace |-> v.trace]
        ELSE IF self.function_names = <<>>
        THEN [err |-> EmptyFunctionList, self |-> [self EXCEPT !.client = v.client],
              trace |-> v.trace]
        ELSE IF p.err # NoError
        THEN [err |-> p.err, self |-> [self EXCEPT !.client = v.client],
              trace |-> v.trace \o p.trace]
        ELSE [err |-> NoError,
              self |-> [self EXCEPT !.client = v.client, !.tools_dict = renamed],
              trace |-> v.trace \o p.trace]

(* validate_toolkit, the validator run after the fields are set: what it   *)
(* raises, the instance as it leaves it, and the accesses it made.         *)
validate_toolkit(self, dflt) ==
    LET v == validate_or_set_default_client(self.client, dflt)
        p == process_function_names(self.function_names, self.tools_dict, v.client, dflt)
    IN  IF v.err # NoError
        THEN [err |-> v.err, self |-> self, trace |-> v.trace]
        ELSE IF self.function_names = <<>>
        THEN [err |-> EmptyFunctionList, self |-> [self EXCEPT !.client = v.client],
              trace |-> v.trace]
        ELSE IF p.err # NoError
        THEN [err |-> p.err, self |-> [self EXCEPT !.client = v.client],
              trace |-> v.trace \o p.trace]
        ELSE [err |-> NoError,
              self |-> [self EXCEPT !.client = v.client, !.tools_dict = p.tools_dict],
              trace |-> v.trace \o p.trace]

(* UCFunctionToolkit(function_names=, tools_dict=, client=): the fields    *)
(* are validated against their declared types, then validate_toolkit runs. *)
UCFunctionToolkit(function_names, tools_dict, client, dflt) ==
    LET self == [function_names |-> function_names, tools_dict |-> tools_dict,
                 client |-> client]
    IN  IF client \notin Clients \cup {None}
        THEN [err |-> InstanceOfError, self |-> self, trace |-> <<>>]
        ELSE validate_toolkit(self, dflt)

(* Variant: tools listing the values in reverse *)
tools_reversed(self) ==
    LET values == DictValues(self.tools_dict)
    IN  [ret |-> [i \in DOMAIN values |-> values[Len(values) + 1 - i]], self |-> self]

(* Variant: tools emptying the mapping it lists *)
tools_draining(self) ==
    [ret |-> DictValues(self.tools_dict), self |-> [self EXCEPT !.tools_dict = <<>>]]

(* The tools property: the list it returns, and the instance after it.     *)
tools(self) ==
    [ret |-> DictValues(self.tools_dict), self |-> self]

----------------------------------------------------------------------------
(* The callers' inputs *)

SeqsUpTo(S, n) == UNION {[1..k -> S] : k \in 0..n}

ClientArgs == Clients \cup {None}

(* function_names a caller passes: concrete names (x is in no catalog),    *)
(* wildcards, and the empty list.                                          *)
NewNames == SeqsUpTo({G, X, STAR}, MaxNames)
UseNames == SeqsUpTo({F, STAR}, MaxUseNames)

(* A LiteLLMTool the caller built by hand, and the tools_dict arguments a  *)
(* caller passes: none (the default, empty), or one holding that tool.     *)
ManualTool ==
    LiteLLMTool([client |-> "c2", function_name |-> Z], get_tool_name(Z), "by hand",
                pydantic_function_tool([cls |-> "Manual", fields |-> <<>>],
                                       get_tool_name(Z), "by hand"))
ToolDicts == {<<>>, <<[key |-> G, tool |-> ManualTool]>>, <<[key |-> Z, tool |-> ManualTool]>>}

FunctionNameArgs == {NoName, F, G, X}
FunctionInfoArgs == {NoInfo, InfoF, InfoG}

Slots == {"toolkit1", "toolkit2"}
Uninitialized == [state |-> "uninitialized"]
Ready(slot) == toolkit[slot].state = "ready"

----------------------------------------------------------------------------
(* The state machine *)

Init ==
    /\ default_client = None
    /\ toolkit = [slot \in Slots |-> Uninitialized]
    /\ last = [op |-> "none"]
    /\ n_invoke = 0
    /\ n_execute = 0

(* set_default_client(client), and leaving its scope *)
set_default_client(client) ==
    /\ default_client' = client
    /\ UNCHANGED <<toolkit, last, n_invoke, n_execute>>

(* slot = UCFunctionToolkit(function_names=, tools_dict=, client=): the    *)
(* caller holds the instance only when the construction did not raise.     *)
(* (The instance is the one __init__ validated in place: what the          *)
(* validator returns is not what the caller receives.)                     *)
New(slot, function_names, tools_dict, client) ==
    LET r == UCFunctionToolkit(function_names, tools_dict, client, default_client)
    IN  /\ toolkit[slot] = Uninitialized
        /\ toolkit' = IF r.err = NoError
                      THEN [toolkit EXCEPT ![slot] = [state |-> "ready", self |-> r.self]]
                      ELSE toolkit
        /\ last' = [op |-> "new", slot |-> slot,
                    args |-> [function_names |-> function_names,
                              tools_dict |-> tools_dict, client |-> client,
                              dflt |-> default_client],
                    err |-> r.err, trace |-> r.trace]
        /\ UNCHANGED <<default_client, n_invoke, n_execute>>

(* UCFunctionToolkit.uc_function_to_litellm_tool(client=, function_name=,  *)
(* function_info=), called directly.                                       *)
Convert(client, function_name, function_info) ==
    LET r == uc_function_to_litellm_tool(client, function_name, function_info,
                                         default_client)
    IN  /\ last' = [op |-> "convert",
                    args |-> [client |-> client, function_name |-> function_name,
                              function_info |-> function_info, dflt |-> default_client],
                    err |-> r.err, trace |-> r.trace, tool |-> r.tool]
        /\ UNCHANGED <<default_client, toolkit, n_invoke, n_execute>>

(* slot.tools *)
Tools(slot) ==
    LET r == tools(toolkit[slot].self)
    IN  /\ Ready(slot)
        /\ toolkit' = [toolkit EXCEPT ![slot].self = r.self]
        /\ last' = [op |-> "tools", slot |-> slot, ret |-> r.ret]
        /\ UNCHANGED <<default_client, n_invoke, n_execute>>

(* slot.tools[i].fn(kwargs), the remote side failing the call or not *)
Invoke(slot, i, kwargs, fault) ==
    /\ Ready(slot)
    /\ i \in DOMAIN toolkit[slot].self.tools_dict
    /\ n_invoke < MaxCalls
    /\ LET entry == toolkit[slot].self.tools_dict[i]
           r == func(entry.tool, kwargs, fault)
       IN  /\ last' = [op |-> "invoke", slot |-> slot, key |-> entry.key,
                       kwargs |-> kwargs, fault |-> fault,
                       calls |-> r.calls, raised |-> r.raised, ret |-> r.ret]
           /\ n_execute' = n_execute + Len(r.calls)
    /\ n_invoke' = n_invoke + 1
    /\ UNCHANGED <<default_client, toolkit>>

(* Callers that construct toolkits and use their tools *)
Next ==
    \/ \E client \in ClientArgs : set_default_client(client)
    \/ \E slot \in Slots, function_names \in UseNames, client \in ClientArgs :
         New(slot, function_names, <<>>, client)
    \/ \E slot \in Slots : Tools(slot)
    \/ \E slot \in Slots, i \in 1..2, kwargs \in Kwargs, fault \in BOOLEAN :
         Invoke(slot, i, kwargs, fault)

Spec == Init /\ [][Next]_vars

(* Callers that construct one toolkit, from every kind of argument *)
NextNew ==
    \/ \E client \in ClientArgs : set_default_client(client)
    \/ \E function_names \in NewNames, tools_dict \in ToolDicts,
          client \in ClientArgs \cup {NotAClient} :
         New("toolkit1", function_names, tools_dict, client)

SpecNew == Init /\ [][NextNew]_vars

(* Callers of the converter *)
NextConvert ==
    \/ \E client \in ClientArgs : set_default_client(client)
    \/ \E client \in ClientArgs, function_name \in FunctionNameArgs,
          function_info \in FunctionInfoArgs :
         Convert(client, function_name, function_info)

SpecConvert == Init /\ [][NextConvert]_vars

----------------------------------------------------------------------------
(* What the properties are stated with *)

(* The names the catalog client returned for a wildcard *)
Listed(client, pattern) ==
    {info.full_name : info \in SeqToSet(list_functions(client, pattern).infos)}

(* The names function_names stands for: each concrete entry, and every     *)
(* name a wildcard entry expands to.                                       *)
Denoted(function_names, client) ==
    UNION {IF IsWildcard(function_names[i])
           THEN Listed(client, function_names[i])
           ELSE {function_names[i]} : i \in DOMAIN function_names}

(* The names the catalog client resolved in the accesses of a trace *)
ResolvedIn(trace) ==
    UNION {IF trace[i].call = "get_function"
           THEN (IF get_function(trace[i].client, trace[i].name).err = NoError
                 THEN {trace[i].name} ELSE {})
           ELSE IF trace[i].call = "list_functions"
           THEN Listed(trace[i].client, trace[i].name)
           ELSE {} : i \in DOMAIN trace}

(* The denoted names in the order they are first reached *)
RECURSIVE Expanded(_, _)
Expanded(function_names, client) ==
    IF function_names = <<>> THEN <<>>
    ELSE (IF IsWildcard(Head(function_names))
          THEN [i \in DOMAIN list_functions(client, Head(function_names)).infos |->
                  list_functions(client, Head(function_names)).infos[i].full_name]
          ELSE <<Head(function_names)>>) \o Expanded(Tail(function_names), client)

RECURSIVE FirstOccurrences(_, _)
FirstOccurrences(names, seen) ==
    IF names = <<>> THEN <<>>
    ELSE IF Head(names) \in seen THEN FirstOccurrences(Tail(names), seen)
    ELSE <<Head(names)>> \o FirstOccurrences(Tail(names), seen \cup {Head(names)})

ResolutionOrder(function_names, client) ==
    FirstOccurrences(Expanded(function_names, client), {})

Constructed == last.op = "new" /\ last.err = NoError
Built == toolkit[last.slot].self

----------------------------------------------------------------------------
(* Properties *)

\* C1 (as amended): constructing a toolkit with an empty function_names list
\* fails with EmptyFunctionList whenever a client is resolvable (one is
\* supplied, or a default client is configured); when no client is supplied
\* and no default is configured it fails with MissingClient instead. No
\* toolkit results in either case.
C1_EmptyListFails ==
    (last.op = "new" /\ last.args.function_names = <<>> /\ last.args.client \in ClientArgs)
    => /\ toolkit[last.slot] = Uninitialized
       /\ last.err = IF last.args.client = None /\ last.args.dflt = None
                     THEN MissingClient
                     ELSE EmptyFunctionList

\* C1 as stated: an empty function_names list fails with EmptyFunctionList
\* whether or not a client is resolvable.
C1_AlwaysEmptyFunctionList ==
    (last.op = "new" /\ last.args.function_names = <<>> /\ last.args.client \in ClientArgs)
    => last.err = EmptyFunctionList

C1_Witness ==
    /\ last.op = "new"
    /\ last.args.function_names = <<>>
    /\ last.args.client \in Clients
    /\ last.err = EmptyFunctionList

\* C2: with no client supplied and no default client configured, construction
\* fails with MissingClient for every function_names list (the empty one
\* included) and every tools_dict, and the only access made before the failure
\* is the read of the default client: nothing is expanded or converted.
C2_MissingClientFirst ==
    (last.op = "new" /\ last.args.client = None /\ last.args.dflt = None)
    => /\ last.err = MissingClient
       /\ last.trace = <<[call |-> "get_default_client"]>>
       /\ toolkit[last.slot] = Uninitialized

C2_Witness ==
    /\ last.op = "new"
    /\ last.args.client = None
    /\ last.args.dflt = None
    /\ last.args.function_names = <<X, STAR>>
    /\ last.err = MissingClient

\* C3: the converter called with both function_name and function_info, or with
\* neither, fails with InvalidArgument before it reads the default client or
\* accesses the catalog, whatever the client argument.
C3_InvalidArgumentBeforeAccess ==
    (/\ last.op = "convert"
     /\ (last.args.function_name = NoName) = (last.args.function_info = NoInfo))
    => /\ last.err \in {InvalidArgumentBoth, InvalidArgumentNeither}
       /\ last.trace = <<>>

\* C4: construction is all-or-nothing. A construction that raised leaves the
\* caller without a toolkit; a failed catalog access during construction makes
\* the construction raise; and a toolkit the caller holds has a tool for every
\* name its function_names stands for.
C4_AllOrNothing ==
    /\ (last.op = "new" /\ last.err # NoError) => toolkit[last.slot] = Uninitialized
    /\ (last.op = "new" /\ \E i \in DOMAIN last.trace :
                             /\ last.trace[i].call = "get_function"
                             /\ get_function(last.trace[i].client,
                                             last.trace[i].name).err # NoError)
       => last.err # NoError
    /\ \A slot \in Slots :
         Ready(slot) =>
           Denoted(toolkit[slot].self.function_names, toolkit[slot].self.client)
             \subseteq DictKeys(toolkit[slot].self.tools_dict)

C4_Witness ==
    /\ last.op = "new"
    /\ last.args.function_names = <<G, X>>
    /\ last.args.tools_dict = <<>>
    /\ last.err = FunctionNotFound
    /\ Len(last.trace) = 2
    /\ toolkit[last.slot] = Uninitialized

\* C5 (as amended): in every constructed toolkit, every key of tools_dict is
\* either a key of the tools_dict the caller passed or a name the catalog
\* client resolved during this construction; when the caller passes no
\* tools_dict, every key is a name resolved during this construction.
C5_KeysResolvedOrSupplied ==
    Constructed =>
      /\ DictKeys(Built.tools_dict)
           \subseteq ResolvedIn(last.trace) \cup DictKeys(last.args.tools_dict)
      /\ last.args.tools_dict = <<>>
           => DictKeys(Built.tools_dict) \subseteq ResolvedIn(last.trace)

\* C5 as stated: every key of tools_dict is a name the catalog client resolved
\* during this construction, for every constructor input.
C5_KeysResolved ==
    Constructed => DictKeys(Built.tools_dict) \subseteq ResolvedIn(last.trace)

C5_Witness ==
    /\ Constructed
    /\ last.args.tools_dict # <<>>
    /\ Cardinality(DictKeys(Built.tools_dict)) = 3

\* C6: a toolkit constructed from a non-empty function_names list (and no
\* tools_dict of the caller's) lists, through tools, one tool per distinct
\* name function_names stands for, in the order the names are first reached.
C6_ToolsInResolutionOrder ==
    (Constructed /\ last.args.tools_dict = <<>>) =>
      LET listed == tools(Built).ret
      IN  /\ Len(listed) = Cardinality(Denoted(Built.function_names, Built.client))
          /\ [i \in DOMAIN listed |-> listed[i].fn.function_name]
               = ResolutionOrder(Built.function_names, Built.client)

C6_Witness ==
    /\ Constructed
    /\ last.args.tools_dict = <<>>
    /\ Built.function_names = <<G, STAR>>
    /\ Len(tools(Built).ret) = 2

\* C7: invoking the callable of the tool a toolkit holds for function f, with
\* JSON-native keyword arguments K, makes the toolkit's client execute f with
\* parameters K, and returns the to_json() of that execution's result.
C7_InvokeExecutesBoundFunction ==
    (last.op = "invoke" /\ \A k \in DOMAIN last.kwargs : JsonNative(last.kwargs[k]))
    => LET client == toolkit[last.slot].self.client
       IN  /\ last.calls = <<[client |-> client, function_name |-> last.key,
                              parameters |-> last.kwargs]>>
           /\ last.raised = NoError
                => last.ret = to_json(execute_function(client, last.key, last.kwargs,
                                                       last.fault))

C7_Witness ==
    /\ last.op = "invoke"
    /\ DOMAIN last.kwargs = {"x", "n"}
    /\ last.raised = NoError
    /\ last.key = G
    /\ n_invoke = 2
    /\ \A slot \in Slots : Ready(slot)
    /\ toolkit["toolkit1"].self.client # toolkit["toolkit2"].self.client

\* C8: two toolkits of the same client, one built from a concrete name and one
\* from a wildcard that covers it, each hold a tool for that function; the two
\* tools have the same name, and their callables make the same execution
\* request and yield the same result for the same arguments.
C8_SameFunctionSameTool ==
    \A s1 \in Slots, s2 \in Slots :
      (Ready(s1) /\ Ready(s2) /\ toolkit[s1].self.client = toolkit[s2].self.client) =>
        LET d1 == toolkit[s1].self.tools_dict
            d2 == toolkit[s2].self.tools_dict
        IN  /\ \A name \in Denoted(toolkit[s1].self.function_names, toolkit[s1].self.client)
                     \cap Denoted(toolkit[s2].self.function_names, toolkit[s2].self.client) :
                 DictHas(d1, name) /\ DictHas(d2, name)
            /\ \A name \in DictKeys(d1) \cap DictKeys(d2) :
                 /\ DictGet(d1, name).name = DictGet(d2, name).name
                 /\ \A kwargs \in Kwargs, fault \in BOOLEAN :
                      func(DictGet(d1, name), kwargs, fault)
                        = func(DictGet(d2, name), kwargs, fault)

C8_Witness ==
    /\ \A slot \in Slots : Ready(slot)
    /\ toolkit["toolkit1"].self.function_names = <<F>>
    /\ toolkit["toolkit2"].self.function_names = <<STAR>>
    /\ toolkit["toolkit1"].self.client = "c1"
    /\ toolkit["toolkit2"].self.client = "c1"

\* C9: every invocation of a tool's callable makes exactly one execute_function
\* call; when that call raises, the callable raises the same error and makes
\* no second call; an invocation repeated calls execute_function again.
C9_OneExecutePerInvoke ==
    /\ n_execute = n_invoke
    /\ last.op = "invoke" =>
         /\ Len(last.calls) = 1
         /\ last.raised = execute_function(last.calls[1].client,
                                           last.calls[1].function_name,
                                           last.calls[1].parameters, last.fault).raised
         /\ last.fault => last.raised = ExecutionFailed /\ last.ret = None

C9_Witness ==
    /\ last.op = "invoke"
    /\ last.fault
    /\ last.raised = ExecutionFailed
    /\ n_invoke = 2
    /\ n_execute = 2

\* C10: a toolkit goes from uninitialized to ready, in its construction, and
\* never changes afterwards: reading tools and invoking a tool leave its
\* function_names, client and tools_dict as they are, and every read of tools
\* returns the values of that unchanged mapping.
C10_ReadyNeverChanges ==
    [][/\ \A slot \in Slots :
            toolkit'[slot] # toolkit[slot] =>
              /\ toolkit[slot] = Uninitialized
              /\ toolkit'[slot].state = "ready"
              /\ last'.op = "new" /\ last'.slot = slot
       /\ last'.op = "tools" =>
            /\ Ready(last'.slot)
            /\ last'.ret = DictValues(toolkit[last'.slot].self.tools_dict)]_vars

C10_Witness ==
    /\ last.op = "tools"
    /\ Len(last.ret) = 2
    /\ n_invoke = 1
    /\ \A slot \in Slots : Ready(slot)

====
